---- MODULE Spec2Model ----
(***************************************************************************)
(* A model of the PDF viewer of src/components/PdfViewer.tsx: the          *)
(* annotation store of the PdfViewer component (selection, createHighlight,*)
(* createTextNote, delete, saveAnnotationsList), the export to Drive       *)
(* (handleSaveToDrive), the colour filter matrix (filterValues) and the    *)
(* render effect of the PdfPage component.                                 *)
(*                                                                         *)
(* Each part has its own specification over the same variables; the        *)
(* variables of the other parts stay at their initial values.              *)
(*   SpecStore   the annotation store and the selection handler            *)
(*   SpecExport  handleSaveToDrive                                         *)
(*   SpecColor   filterValues                                              *)
(*   SpecPage    the PdfPage render effect                                 *)
(***************************************************************************)
EXTENDS Integers, Sequences, FiniteSets, TLC

VARIABLES
  \* --- PdfViewer state (useState, PdfViewer.tsx 304-323) ---
  annotations,       \* Annotation[] : the ordered in-memory collection
  selection,         \* SelectionState | null : <<>> is null, <<s>> is s
  activeTool,        \* 'cursor' | 'text'
  highlightColor,    \* hex colour string
  highlightOpacity,  \* in tenths (0.4 is 4)
  isSaving,          \* the "Salvando" indicator
  \* --- environment of the store ---
  scrollY,           \* scroll offset of the viewer area, in pixels
  saves,             \* the saveAnnotationsList calls in flight
  saveCalls,         \* number of saveAnnotation calls issued so far
  op,                \* the last operation (its name)
  \* --- the viewer's session and its export to Drive ---
  viewer,            \* the mounted PdfViewer instance (0: none is mounted)
  mounts,            \* number of PdfViewer instances mounted so far
  originalBlob,      \* "null" or "blob": the loaded document's bytes
  isExporting,       \* the export buttons' disabled flag
  exports,           \* every handleSaveToDrive run, in flight or ended
  uploads,           \* the uploadFileToDrive calls: the index of their run
  \* --- reading colours (PdfViewer.tsx 320-321) ---
  pageColor,         \* "#rrggbb" as its six hexadecimal digits
  textColor,         \* "#rrggbb" as its six hexadecimal digits
  \* --- the PdfPage instances of the page list (PdfViewer.tsx 801-821) ---
  pageMounted,       \* the page list is in the DOM
  docText,           \* per page, the items of getTextContent()
  pages,             \* per page, the PdfPage instance and its render pass
  \* --- the load effect of PdfViewer (PdfViewer.tsx 325-364) ---
  loading,           \* the loader stands in for the viewer
  pdfDoc,            \* "null" or "doc": the parsed document
  loads,             \* every run of init(), in flight or ended
  \* --- the application shell, App (Sidebar.tsx 95-113) ---
  user,              \* "null" or the signed-in user
  accessToken,       \* "null" or the Drive access token
  loadingAuth,       \* the first auth callback has not arrived yet
  currentView,       \* 'dashboard' | 'browser' | 'viewer'
  selectedFile,      \* "null" or the Drive file to show
  localFile,         \* "null" or the uploaded local file
  logins,            \* handleLogin calls waiting for the sign-in popup
  logouts,           \* handleLogout calls waiting for logout()
  \* --- downloadDriveFile (driveService.ts 35-51) ---
  downloads          \* every call of downloadDriveFile, in flight or ended

storeVars == <<annotations, selection, activeTool, highlightColor,
               highlightOpacity, isSaving, scrollY, saves, saveCalls, op>>

exportVars == <<viewer, mounts, originalBlob, isExporting, exports, uploads>>

colorVars == <<pageColor, textColor>>

pageVars == <<pageMounted, docText, pages>>

loadVars == <<loading, pdfDoc, loads>>

appVars == <<user, accessToken, loadingAuth, currentView, selectedFile,
             localFile, logins, logouts>>

downloadVars == <<downloads>>

vars == <<storeVars, exportVars, colorVars, pageVars, loadVars, appVars,
          downloadVars>>

----------------------------------------------------------------------------
(* Bounds of the model                                                     *)

MaxAnns == 2       \* the collection holds at most this many annotations
MaxRects == 2      \* a selection spans at most this many visual lines
MaxExports == 2    \* handleSaveToDrive runs at most this many times
MaxMounts == 2     \* the viewer is opened at most this many times
MaxLoads == 3      \* the load effect runs at most this many times
MaxPending == 1    \* sign-in popups, and logout() calls, in flight at once
MaxDownloads == 2  \* downloadDriveFile is called at most this many times

----------------------------------------------------------------------------
(* Values                                                                  *)

Null == <<>>
Some(v) == <<v>>

\* An annotation created locally has no id (types.ts: id?: string).
NoId == "undefined"

\* The document shown has two pages.
Pages == {1, 2}

\* Strings are sequences of characters: the empty string, a blank one, and
\* two whose trimmed text is not empty.
Texts == {<<>>, <<" ">>, <<"a">>, <<" ", "a">>}

\* String.prototype.trim: strips white space at both ends.
RECURSIVE TrimLeft(_)
TrimLeft(s) ==
  IF s = <<>> THEN s
  ELSE IF Head(s) = " " THEN TrimLeft(Tail(s)) ELSE s

RECURSIVE TrimRight(_)
TrimRight(s) ==
  IF s = <<>> THEN s
  ELSE IF s[Len(s)] = " " THEN TrimRight(SubSeq(s, 1, Len(s) - 1)) ELSE s

Trim(s) == TrimRight(TrimLeft(s))

----------------------------------------------------------------------------
(* Geometry of the page containers in the viewport                         *)

\* Page containers are stacked 900 px apart, 40 px from the left edge; a visual
\* line of text is 50 px wide and 12 px high; one scroll gesture moves 30 px.
ScrollOffsets == {0, 30}

\* getBoundingClientRect of the page container (and of its canvas, which is
\* the container's first block child at its origin).
ContainerRect(page, scroll) ==
  [left |-> 40, top |-> (page - 1) * 900 - scroll]

\* range.getClientRects(): one viewport rectangle per visual line.
ClientRects(page, k, scroll) ==
  [i \in 1..k |->
     [left   |-> ContainerRect(page, scroll).left + 10,
      top    |-> ContainerRect(page, scroll).top + 20 * i,
      width  |-> 50,
      height |-> 12]]

----------------------------------------------------------------------------
(* The annotation store                                                    *)

HighlightColors == {"#facc15", "#ff0000"}
HighlightOpacities == {4, 8}

LoadedNote(id, page) ==
  [id |-> id, page |-> page, bbox |-> <<5, 6, 0, 0>>, type |-> "note",
   text |-> <<"a">>, color |-> "#fef9c3", opacity |-> 10]

LoadedHighlight(id, page) ==
  [id |-> id, page |-> page, bbox |-> <<10, 20, 50, 12>>,
   type |-> "highlight", text |-> <<"a">>, color |-> "#facc15", opacity |-> 4]

AnnIds == {"a1", "a2", "temp-1"}

\* What loadAnnotations(uid, fileId) may have returned (PdfViewer.tsx 350-351).
LoadedStores ==
  { <<>>,
    <<LoadedNote("a1", 1)>>,
    <<LoadedNote("a1", 1), LoadedHighlight("a2", 2)>>,
    <<LoadedNote("temp-1", 2), LoadedNote("a1", 1)>> }

\* A createHighlight that makes one record for the whole selection.
NewHighlightsFirstOnly(sel, canvasRect, color, opacity) ==
  << [id      |-> NoId,
      page    |-> sel.page,
      bbox    |-> << sel.rects[1].left - canvasRect.left,
                     sel.rects[1].top - canvasRect.top,
                     sel.rects[1].width,
                     sel.rects[1].height >>,
      type    |-> "highlight",
      text    |-> sel.text,
      color   |-> color,
      opacity |-> opacity] >>

\* createHighlight's map over selection.rects (PdfViewer.tsx 438-452).
NewHighlights(sel, canvasRect, color, opacity) ==
  [i \in 1..Len(sel.rects) |->
     [id      |-> NoId,
      page    |-> sel.page,
      bbox    |-> << sel.rects[i].left - canvasRect.left,
                     sel.rects[i].top - canvasRect.top,
                     sel.rects[i].width,
                     sel.rects[i].height >>,
      type    |-> "highlight",
      text    |-> sel.text,
      color   |-> color,
      opacity |-> opacity]]

\* createTextNote's record (PdfViewer.tsx 468-475).
NewNote(page, x, y, text) ==
  [id |-> NoId, page |-> page, bbox |-> <<x, y, 0, 0>>, type |-> "note",
   text |-> text, color |-> "#fef9c3", opacity |-> 10]

\* A delete whose filter also drops the records that have no id yet:
\* prev.filter(a => a.id && a.id !== id).
DeleteAnnDropsUnsaved(anns, id) ==
  SelectSeq(anns, LAMBDA a : a.id # NoId /\ a.id # id)

\* prev.filter(a => a.id !== id) (PdfViewer.tsx 812).
DeleteAnn(anns, id) == SelectSeq(anns, LAMBDA a : a.id # id)

\* A page list that shows the newest record first.
PageListReversed(anns, pageNum) ==
  LET l == SelectSeq(anns, LAMBDA a : a.page = pageNum)
  IN [i \in 1..Len(l) |-> l[Len(l) + 1 - i]]

\* The annotations handed to the PdfPage of a page:
\* annotations.filter(a => a.page === pageNum) (PdfViewer.tsx 808).
PageList(anns, pageNum) == SelectSeq(anns, LAMBDA a : a.page = pageNum)

\* The delete button of a note is rendered only when
\* ann.id && !ann.id.startsWith('temp') (PdfViewer.tsx 248).
StartsWithTemp(id) == id \in {"temp-1"}

\* A button rendered for every note that has an id: ann.id && (...).
DeletableAnyId(a) == a.type = "note" /\ a.id # NoId

Deletable(a) == a.type = "note" /\ a.id # NoId /\ ~StartsWithTemp(a.id)

----------------------------------------------------------------------------
(* The selection handler, handleMouseUp (PdfViewer.tsx 369-421)            *)

\* window.getSelection() at the time of the event: none (null, no range or
\* collapsed), or a range with its text, the page its anchor node lies in
\* (0: outside every .pdf-page) and its number of client rectangles. One
\* selection stands for each case the handler rejects early: no selection,
\* a blank text, an anchor outside the pages.
PlatformSelections ==
  {[kind |-> "none", text |-> <<>>, anchorPage |-> 0, k |-> 0],
   [kind |-> "range", text |-> <<" ">>, anchorPage |-> 1, k |-> 1],
   [kind |-> "range", text |-> <<"a">>, anchorPage |-> 0, k |-> 1]} \cup
  [kind : {"range"}, text : {<<"a">>}, anchorPage : Pages, k : 0..MaxRects]

\* The selection at a mouse-up inside the popover or a note: the handler
\* returns before it looks at it.
ChromeSelections ==
  {[kind |-> "none", text |-> <<>>, anchorPage |-> 0, k |-> 0],
   [kind |-> "range", text |-> <<"a">>, anchorPage |-> 1, k |-> 1]}

\* setSelection's argument (PdfViewer.tsx 407-420): the page, the tooltip
\* position relative to the page container, the text and the client
\* rectangles as getClientRects gave them.
SelectionFrom(ps, scroll) ==
  LET rects == ClientRects(ps.anchorPage, ps.k, scroll)
      containerRect == ContainerRect(ps.anchorPage, scroll)
  IN [page  |-> ps.anchorPage,
      x     |-> rects[1].left - containerRect.left + (rects[1].width \div 2),
      y     |-> rects[1].top - containerRect.top - 5,
      text  |-> ps.text,
      rects |-> rects]

\* An inspection that leaves the pending selection alone when the selected
\* text is blank.
InspectSelectionKeepsOnBlank(cur, ps, scroll) ==
  IF ps.kind = "none" THEN Null
  ELSE IF Trim(ps.text) = <<>> THEN cur
  ELSE IF ps.anchorPage = 0 THEN Null
  ELSE IF ps.k = 0 THEN cur
  ELSE Some(SelectionFrom(ps, scroll))

\* The inspection of window.getSelection() (PdfViewer.tsx 376-420).
InspectSelection(cur, ps, scroll) ==
  IF ps.kind = "none" THEN Null
  ELSE IF Trim(ps.text) = <<>> THEN Null
  ELSE IF ps.anchorPage = 0 THEN Null
  ELSE IF ps.k = 0 THEN cur
  ELSE Some(SelectionFrom(ps, scroll))

\* A handler without the check of the active tool.
HandleMouseUpIgnoresTool(cur, tool, inChrome, ps, scroll) ==
  IF inChrome THEN cur ELSE InspectSelection(cur, ps, scroll)

\* A handler without the check of the event's target.
HandleMouseUpIgnoresChrome(cur, tool, inChrome, ps, scroll) ==
  IF tool = "text" THEN cur ELSE InspectSelection(cur, ps, scroll)

\* handleMouseUp (PdfViewer.tsx 369-421).
HandleMouseUp(cur, tool, inChrome, ps, scroll) ==
  IF tool = "text" THEN cur
  ELSE IF inChrome THEN cur
  ELSE InspectSelection(cur, ps, scroll)

\* The name a mouse-up is recorded under: whether its target was inside the
\* chrome, and whether it cleared a pending selection.
MouseUpOp(inChrome, ps, cur, new) ==
  IF inChrome THEN "handleMouseUp:chrome"
  ELSE IF /\ cur # Null
          /\ new = Null
          /\ (ps.kind = "none" \/ Trim(ps.text) = <<>>)
    THEN "handleMouseUp:cleared"
  ELSE "handleMouseUp"

MouseUpOps == {"handleMouseUp", "handleMouseUp:chrome", "handleMouseUp:cleared"}

\* A handler that turns a fresh selection into an annotation at once.
MouseUpCreates(inChrome, ps) ==
  /\ selection' = HandleMouseUp(selection, activeTool, inChrome, ps, scrollY)
  /\ op' = MouseUpOp(inChrome, ps, selection, selection')
  /\ annotations' =
       IF selection' # Null /\ selection' # selection /\ Len(annotations) < MaxAnns
         THEN Append(annotations, LoadedHighlight(NoId, selection'[1].page))
         ELSE annotations
  /\ UNCHANGED <<activeTool, highlightColor, highlightOpacity,
                 isSaving, scrollY, saves, saveCalls>>

MouseUpWith(inChrome, ps) ==
  /\ selection' = HandleMouseUp(selection, activeTool, inChrome, ps, scrollY)
  /\ op' = MouseUpOp(inChrome, ps, selection, selection')
  /\ UNCHANGED <<annotations, activeTool, highlightColor, highlightOpacity,
                 isSaving, scrollY, saves, saveCalls>>

MouseUp ==
  \/ \E ps \in ChromeSelections : MouseUpWith(TRUE, ps)
  \/ \E ps \in PlatformSelections : MouseUpWith(FALSE, ps)

----------------------------------------------------------------------------
(* saveAnnotationsList (PdfViewer.tsx 481-492)                             *)

\* The call sets isSaving and issues saveAnnotation for the first record; the
\* batch (n records, the i-th being saved) then waits for that call.
StartBatch(anns) ==
  /\ isSaving' = TRUE
  /\ saves' = Append(saves, [n |-> Len(anns), i |-> 1])
  /\ saveCalls' = saveCalls + 1

RemoveAt(s, j) == SubSeq(s, 1, j - 1) \o SubSeq(s, j + 1, Len(s))

\* The awaited saveAnnotation of batch j resolves: the loop issues the call for
\* the next record, or ends and the finally block clears isSaving.
SaveResolve(j) ==
  /\ j \in DOMAIN saves
  /\ IF saves[j].i < saves[j].n
       THEN /\ saves' = [saves EXCEPT ![j].i = @ + 1]
            /\ saveCalls' = saveCalls + 1
            /\ UNCHANGED isSaving
       ELSE /\ saves' = RemoveAt(saves, j)
            /\ isSaving' = FALSE
            /\ UNCHANGED saveCalls
  /\ op' = "saveResolve"
  /\ UNCHANGED <<annotations, selection, activeTool, highlightColor,
                 highlightOpacity, scrollY>>

\* A catch block that takes the records of the failed batch out of the
\* collection again.
SaveRejectRollsBack(j) ==
  /\ j \in DOMAIN saves
  /\ saves' = RemoveAt(saves, j)
  /\ isSaving' = FALSE
  /\ annotations' = SubSeq(annotations, 1, Len(annotations) - saves[j].n)
  /\ op' = "saveReject"
  /\ UNCHANGED <<selection, activeTool, highlightColor, highlightOpacity,
                 scrollY, saveCalls>>

\* The awaited saveAnnotation of batch j rejects: the catch block logs, the
\* finally block clears isSaving; the rest of the batch is not saved.
SaveReject(j) ==
  /\ j \in DOMAIN saves
  /\ saves' = RemoveAt(saves, j)
  /\ isSaving' = FALSE
  /\ op' = "saveReject"
  /\ UNCHANGED <<annotations, selection, activeTool, highlightColor,
                 highlightOpacity, scrollY, saveCalls>>

----------------------------------------------------------------------------
(* createHighlight (PdfViewer.tsx 428-459), invoked by the popover button, *)
(* which is rendered only while a selection is pending (275-294).          *)

CreateHighlight ==
  /\ selection # Null
  /\ LET sel == selection[1]
         newAnns == NewHighlights(sel, ContainerRect(sel.page, scrollY),
                                  highlightColor, highlightOpacity)
     IN /\ Len(annotations) + Len(newAnns) <= MaxAnns
        /\ annotations' = annotations \o newAnns
        /\ selection' = Null
        /\ StartBatch(newAnns)
        /\ op' = "createHighlight"
  /\ UNCHANGED <<activeTool, highlightColor, highlightOpacity, scrollY>>

----------------------------------------------------------------------------
(* createTextNote (PdfViewer.tsx 461-479), invoked by a click on a page    *)
(* while the text tool is active (handleContainerClick, 168-179).          *)

\* window.prompt returns null when cancelled, else the typed string.
Prompts == [cancelled : {TRUE}, text : {<<>>}] \cup [cancelled : {FALSE}, text : Texts]

\* A check that forgets to trim: if (!text) return;
NoteRejectedNoTrim(p) == p.cancelled \/ p.text = <<>>

\* if (!text || !text.trim()) return;
NoteRejected(p) == p.cancelled \/ p.text = <<>> \/ Trim(p.text) = <<>>

NoteToolAfter(tool, p) == IF NoteRejected(p) THEN tool ELSE "cursor"

CreateTextNoteWith(page, p) ==
  /\ activeTool = "text"
  /\ op' = "createTextNote"
  /\ activeTool' = NoteToolAfter(activeTool, p)
  /\ IF NoteRejected(p)
       THEN UNCHANGED <<annotations, isSaving, saves, saveCalls>>
       ELSE /\ Len(annotations) < MaxAnns
            /\ annotations' = Append(annotations, NewNote(page, 5, 6, p.text))
            /\ StartBatch(<<NewNote(page, 5, 6, p.text)>>)
  /\ UNCHANGED <<selection, highlightColor, highlightOpacity, scrollY>>

CreateTextNote == \E page \in Pages, p \in Prompts : CreateTextNoteWith(page, p)

----------------------------------------------------------------------------
(* onDeleteAnnotation (PdfViewer.tsx 811-814), invoked by the delete       *)
(* button of a note (247-258).                                             *)

DeleteAnnotation ==
  \E i \in DOMAIN annotations :
    /\ Deletable(annotations[i])
    /\ annotations' = DeleteAnn(annotations, annotations[i].id)
    /\ op' = "delete"
    /\ UNCHANGED <<selection, activeTool, highlightColor, highlightOpacity,
                   isSaving, scrollY, saves, saveCalls>>

----------------------------------------------------------------------------
(* Toolbar and settings (PdfViewer.tsx 662-675, 783, 790), scrolling       *)

SetActiveTool ==
  \E t \in {"cursor", "text"} :
    /\ activeTool' = t
    /\ op' = "setActiveTool"
    /\ UNCHANGED <<annotations, selection, highlightColor, highlightOpacity,
                   isSaving, scrollY, saves, saveCalls>>

SetHighlightColor ==
  \E c \in HighlightColors :
    /\ highlightColor' = c
    /\ op' = "setHighlightColor"
    /\ UNCHANGED <<annotations, selection, activeTool, highlightOpacity,
                   isSaving, scrollY, saves, saveCalls>>

SetHighlightOpacity ==
  \E o \in HighlightOpacities :
    /\ highlightOpacity' = o
    /\ op' = "setHighlightOpacity"
    /\ UNCHANGED <<annotations, selection, activeTool, highlightColor,
                   isSaving, scrollY, saves, saveCalls>>

Scroll ==
  \E s \in ScrollOffsets :
    /\ scrollY' = s
    /\ op' = "scroll"
    /\ UNCHANGED <<annotations, selection, activeTool, highlightColor,
                   highlightOpacity, isSaving, saves, saveCalls>>

\* The reading colours a viewer starts with (PdfViewer.tsx 320-321).
ColorIdle ==
  /\ pageColor = <<15, 15, 15, 15, 15, 15>>
  /\ textColor = <<0, 0, 0, 0, 0, 0>>

\* A PdfPage after its first commit (PdfViewer.tsx 109-121): rendered is
\* false, hasText is true, the canvas has the default size of a canvas
\* element, the text layer is empty and unsized, and the effect has started
\* its render pass, which waits for pdfDoc.getPage.
InitPage ==
  [pc |-> "getPage", active |-> TRUE, closureRendered |-> FALSE,
   rendered |-> FALSE, hasText |-> TRUE,
   canvas |-> [w |-> 300, h |-> 150],
   overlay |-> [w |-> 0, h |-> 0, spans |-> <<>>],
   logged |-> FALSE, stale |-> FALSE]

PageIdle ==
  /\ pageMounted = TRUE
  /\ docText = [p \in Pages |-> <<>>]
  /\ pages = [p \in Pages |-> InitPage]

\* A viewer whose load effect has ended with a document.
LoadIdle ==
  /\ loading = FALSE
  /\ pdfDoc = "doc"
  /\ loads = <<>>

\* The store before any interaction, around a given collection.
StoreIdle ==
  /\ selection = Null
  /\ activeTool = "cursor"
  /\ highlightColor = "#facc15"
  /\ highlightOpacity = 4
  /\ isSaving = FALSE
  /\ scrollY = 0
  /\ saves = <<>>
  /\ saveCalls = 0
  /\ op = "init"

\* The application shows a Drive file of a signed-in user.
AppIdle ==
  /\ user = "u1"
  /\ accessToken = "tok"
  /\ loadingAuth = FALSE
  /\ currentView = "viewer"
  /\ selectedFile = "f1"
  /\ localFile = "null"
  /\ logins = 0
  /\ logouts = 0

\* No call of downloadDriveFile was made.
DownloadIdle == downloads = <<>>

\* A Drive viewer that has loaded its document and exports nothing.
ExportIdle ==
  /\ viewer = 1
  /\ mounts = 1
  /\ originalBlob = "blob"
  /\ isExporting = FALSE
  /\ exports = <<>>
  /\ uploads = <<>>

StoreInit ==
  /\ annotations \in LoadedStores
  /\ StoreIdle
  /\ ExportIdle
  /\ ColorIdle
  /\ PageIdle
  /\ LoadIdle
  /\ AppIdle
  /\ DownloadIdle

StoreStep ==
  \/ MouseUp
  \/ CreateHighlight
  \/ CreateTextNote
  \/ DeleteAnnotation
  \/ SetActiveTool
  \/ SetHighlightColor
  \/ SetHighlightOpacity

StoreNext == StoreStep /\ UNCHANGED <<exportVars, colorVars, pageVars, loadVars, appVars,
  downloadVars>>

SpecStore == StoreInit /\ [][StoreNext]_vars

----------------------------------------------------------------------------
(* Properties of the annotation store                                      *)

\* C1: confirming a pending selection that holds k >= 1 line rectangles with
\* createHighlight appends exactly k highlight annotations after the existing
\* ones, the i-th over the i-th rectangle, and all k carry the selection's
\* text and page and the highlight colour and opacity configured at that time.
C1_OneHighlightPerRect ==
  [][ (op' = "createHighlight") =>
        /\ selection # Null
        /\ LET sel  == selection[1]
               k    == Len(sel.rects)
               base == Len(annotations)
               orig == ContainerRect(sel.page, scrollY)
           IN /\ k >= 1
              /\ Len(annotations') = base + k
              /\ SubSeq(annotations', 1, base) = annotations
              /\ \A i \in 1..k :
                   LET a == annotations'[base + i]
                   IN /\ a.type = "highlight"
                      /\ a.text = sel.text
                      /\ a.page = sel.page
                      /\ a.color = highlightColor
                      /\ a.opacity = highlightOpacity
                      /\ a.bbox = << sel.rects[i].left - orig.left,
                                     sel.rects[i].top - orig.top,
                                     sel.rects[i].width,
                                     sel.rects[i].height >> ]_vars

\* A two-line selection was confirmed with a non-default colour and opacity:
\* the collection ends with its two highlights and their batch is being saved.
C1_Witness ==
  /\ op = "createHighlight"
  /\ Len(annotations) = 2
  /\ \E j \in DOMAIN saves : saves[j].n = 2
  /\ annotations[1].bbox # annotations[2].bbox
  /\ annotations[1].color = "#ff0000"
  /\ annotations[2].opacity = 8

\* C4: delete(id) is idempotent: for every collection the store reaches and
\* every id, deleting id twice gives the same collection as deleting it once,
\* and deleting an id that no annotation carries gives the collection itself.
C4_DeleteIdempotent ==
  \A id \in AnnIds \cup {"zz"} :
    /\ DeleteAnn(DeleteAnn(annotations, id), id) = DeleteAnn(annotations, id)
    /\ (\A i \in DOMAIN annotations : annotations[i].id # id)
          => DeleteAnn(annotations, id) = annotations

\* The note a1 was deleted from a collection that also holds an annotation
\* without an id: the latter is still there and a1 is absent.
C4_Witness ==
  /\ op = "delete"
  /\ Len(annotations) >= 1
  /\ \A i \in DOMAIN annotations : annotations[i].id # "a1"
  /\ \E i \in DOMAIN annotations : annotations[i].id = NoId

\* An annotation that has no id yet, or whose id has the temporary prefix.
Unacknowledged(a) == a.id = NoId \/ StartsWithTemp(a.id)

\* C25: an annotation without an id, or whose id starts with 'temp', is
\* never deletable: no delete button is rendered for it, a delete step
\* leaves every such annotation in the collection, in its position among
\* them, and no call of the delete handler, with any id, removes an
\* annotation that has no id.
C25_UnacknowledgedNotDeletable ==
  /\ [](\A i \in DOMAIN annotations :
          Unacknowledged(annotations[i]) => ~Deletable(annotations[i]))
  /\ [][op' = "delete" =>
          SelectSeq(annotations', Unacknowledged)
            = SelectSeq(annotations, Unacknowledged)]_vars
  /\ [](\A id \in AnnIds \cup {"zz"} :
          SelectSeq(DeleteAnn(annotations, id), LAMBDA a : a.id = NoId)
            = SelectSeq(annotations, LAMBDA a : a.id = NoId))

\* The note a1 was deleted; the note with the temporary id temp-1, loaded
\* with it, is still in the collection.
C25_Witness ==
  /\ op = "delete"
  /\ annotations = <<LoadedNote("temp-1", 2)>>

\* C5: createTextNote with a prompt that was cancelled, or whose text is empty
\* or only white space, changes nothing: the collection is the same, no
\* saveAnnotation call is issued and the active tool stays as it was.
C5_BlankNoteIsNoOp ==
  [][ ( /\ op' = "createTextNote"
        /\ ~( /\ annotations' = annotations
              /\ saveCalls' = saveCalls
              /\ saves' = saves
              /\ isSaving' = isSaving
              /\ activeTool' = activeTool ) )
      => \A page \in Pages, p \in Prompts :
           (p.cancelled \/ \A i \in DOMAIN p.text : p.text[i] = " ")
             => ~CreateTextNoteWith(page, p) ]_vars

\* A note prompt was answered and the text tool is still active: the answer
\* was rejected (an accepted one switches to the cursor tool).
C5_Witness ==
  /\ op = "createTextNote"
  /\ activeTool = "text"
  /\ saveCalls = 0

----------------------------------------------------------------------------
(* Export to Drive: handleSaveToDrive (PdfViewer.tsx 495-585)              *)

\* The rendering scale, in tenths: useState(1.3). setScale is never called, so
\* every bbox is captured at this scale and exported at it.
Scale10 == 13

\* Exact fractions n/d (d > 0) stand for the numbers of the coordinate
\* arithmetic.
Rat(n, d) == [n |-> n, d |-> d]
RatEq(a, b) == a.n * b.d = b.n * a.d
RatSub(a, b) == Rat(a.n * b.d - b.n * a.d, a.d * b.d)
DivByScale(a) == Rat(a.n * 10, a.d * Scale10)
TimesScale(a) == Rat(a.n * Scale10, a.d * 10)

\* pdfDoc.getPages(): the point heights of the exported document's pages.
DocPageHeights == <<792, 842>>

\* An export that forgets the rectangle's own height when flipping the
\* vertical axis: pdfY = height - rectY.
ExportRectNoHeight(bbox, height) ==
  [x |-> DivByScale(Rat(bbox[1], 1)),
   y |-> RatSub(Rat(height, 1), DivByScale(Rat(bbox[2], 1))),
   w |-> DivByScale(Rat(bbox[3], 1)),
   h |-> DivByScale(Rat(bbox[4], 1))]

\* The coordinate conversion of a highlight (PdfViewer.tsx 535-542).
ExportRect(bbox, height) ==
  LET rectX == DivByScale(Rat(bbox[1], 1))
      rectY == DivByScale(Rat(bbox[2], 1))
      rectW == DivByScale(Rat(bbox[3], 1))
      rectH == DivByScale(Rat(bbox[4], 1))
  IN [x |-> rectX,
      y |-> RatSub(RatSub(Rat(height, 1), rectY), rectH),
      w |-> rectW,
      h |-> rectH]

\* The sticky-note box of a note (PdfViewer.tsx 559-565).
NoteRect(bbox, height) ==
  [x |-> DivByScale(Rat(bbox[1], 1)),
   y |-> RatSub(RatSub(Rat(height, 1), DivByScale(Rat(bbox[2], 1))), Rat(20, 1)),
   w |-> Rat(150, 1),
   h |-> Rat(50, 1)]

\* A loop whose failure is swallowed: the run goes on to save and upload what
\* was drawn so far.
DrawFailureSkipped(drawn) == [ok |-> TRUE, drawn |-> drawn]

\* A drawing call throws: the loop is left for the catch block.
DrawFailure(drawn) == [ok |-> FALSE, drawn |-> drawn]

\* The loop over the annotations (PdfViewer.tsx 525-567), from the j-th on;
\* failAt is the annotation whose drawing call the library rejects (0: none).
\* An annotation past the last page is skipped; one before the first page
\* finds no page object and page.getSize() throws.
RECURSIVE DrawFrom(_, _, _, _)
DrawFrom(anns, j, failAt, drawn) ==
  IF j > Len(anns) THEN [ok |-> TRUE, drawn |-> drawn]
  ELSE LET ann == anns[j]
       IN IF ann.page > Len(DocPageHeights) THEN DrawFrom(anns, j + 1, failAt, drawn)
          ELSE IF ann.page < 1 THEN DrawFailure(drawn)
          ELSE IF ann.type = "highlight"
            THEN IF j = failAt THEN DrawFailure(drawn)
                 ELSE DrawFrom(anns, j + 1, failAt,
                        Append(drawn, [ann |-> j, type |-> "highlight",
                                       rect |-> ExportRect(ann.bbox, DocPageHeights[ann.page]),
                                       color |-> ann.color, opacity |-> ann.opacity]))
          ELSE IF ann.type = "note" /\ ann.text # <<>>
            THEN IF j = failAt THEN DrawFailure(drawn)
                 ELSE DrawFrom(anns, j + 1, failAt,
                        Append(drawn, [ann |-> j, type |-> "note",
                                       rect |-> NoteRect(ann.bbox, DocPageHeights[ann.page]),
                                       color |-> ann.color, opacity |-> 10]))
          ELSE DrawFrom(anns, j + 1, failAt, drawn)

\* The export buttons carry disabled={isExporting} (PdfViewer.tsx 683, 748).
ExportButtonEnabled == ~isExporting

\* The collections the exported document is annotated with, as loaded from
\* the annotation store: Annotation.page is any number (types.ts 12), here a
\* page of the document, the page after the last one, and page 0.
ExportStores ==
  { <<LoadedHighlight("a1", 1)>>,
    <<LoadedHighlight("a1", 2), LoadedNote("a2", 1)>>,
    <<[LoadedHighlight("a1", 1) EXCEPT !.bbox = <<100, 50, 200, 20>>],
      LoadedHighlight("a2", 3),
      LoadedHighlight("a3", 2)>>,
    <<LoadedHighlight("a1", 1), LoadedHighlight("a2", 0)>> }

InFlight(e) == exports[e].pc \in {"read", "load", "save", "upload"}

\* catch and finally (PdfViewer.tsx 579-584): the run ends; setIsExporting
\* acts on the instance that started it, which may no longer be mounted.
EndRun(e, failedAt) ==
  /\ exports' = [exports EXCEPT ![e].pc = IF failedAt = "none" THEN "done" ELSE "failed",
                                 ![e].failedAt = failedAt]
  /\ isExporting' = IF exports[e].inst = viewer THEN FALSE ELSE isExporting

\* A click on an export button: the guard, the confirm dialog, then
\* setIsExporting(true) and the first awaited step (PdfViewer.tsx 496-511).
ClickExport ==
  /\ viewer # 0
  /\ ExportButtonEnabled
  /\ Len(exports) < MaxExports
  /\ \E confirmSave \in BOOLEAN :
       IF originalBlob = "null" \/ ~confirmSave
         THEN UNCHANGED exportVars
         ELSE /\ isExporting' = TRUE
              /\ exports' = Append(exports, [inst |-> viewer, pc |-> "read",
                                              drawn |-> <<>>, failedAt |-> "none"])
              /\ UNCHANGED <<viewer, mounts, originalBlob, uploads>>
  /\ UNCHANGED storeVars

\* originalBlob.arrayBuffer() settles (PdfViewer.tsx 511).
ReadSettles(e) ==
  /\ e \in DOMAIN exports
  /\ exports[e].pc = "read"
  /\ \E ok \in BOOLEAN :
       IF ok THEN /\ exports' = [exports EXCEPT ![e].pc = "load"]
                  /\ UNCHANGED isExporting
             ELSE EndRun(e, "read")
  /\ UNCHANGED <<viewer, mounts, originalBlob, uploads, storeVars>>

\* A document object kept from the previous run, with what that run drew.
LoadedDocumentKept(e) == IF e > 1 THEN exports[e - 1].drawn ELSE <<>>

\* PDFDocument.load(existingPdfBytes) (512): a new document parsed from the
\* bytes of originalBlob, with nothing drawn on it.
LoadedDocument(e) == <<>>

\* PDFDocument.load settles; on success the annotations are drawn in one
\* synchronous loop and pdfDoc.save() is called (PdfViewer.tsx 512-570).
LoadSettles(e) ==
  /\ e \in DOMAIN exports
  /\ exports[e].pc = "load"
  /\ \E ok \in BOOLEAN, failAt \in 0..Len(annotations) :
       IF ~ok THEN EndRun(e, "load")
       ELSE LET res == DrawFrom(annotations, 1, failAt, LoadedDocument(e))
            IN IF res.ok
                 THEN /\ exports' = [exports EXCEPT ![e].pc = "save", ![e].drawn = res.drawn]
                      /\ UNCHANGED isExporting
                 ELSE /\ exports' = [exports EXCEPT ![e].pc = "failed", ![e].drawn = res.drawn,
                                                    ![e].failedAt = "draw"]
                      /\ isExporting' = IF exports[e].inst = viewer THEN FALSE ELSE isExporting
  /\ UNCHANGED <<viewer, mounts, originalBlob, uploads, storeVars>>

\* pdfDoc.save() settles; on success uploadFileToDrive is called with the
\* saved bytes (PdfViewer.tsx 570-575).
PdfSaveSettles(e) ==
  /\ e \in DOMAIN exports
  /\ exports[e].pc = "save"
  /\ \E ok \in BOOLEAN :
       IF ok THEN /\ exports' = [exports EXCEPT ![e].pc = "upload"]
                  /\ uploads' = Append(uploads, e)
                  /\ UNCHANGED isExporting
             ELSE /\ EndRun(e, "save")
                  /\ UNCHANGED uploads
  /\ UNCHANGED <<viewer, mounts, originalBlob, storeVars>>

\* uploadFileToDrive settles (PdfViewer.tsx 575-584).
UploadSettles(e) ==
  /\ e \in DOMAIN exports
  /\ exports[e].pc = "upload"
  /\ \E ok \in BOOLEAN : EndRun(e, IF ok THEN "none" ELSE "upload")
  /\ UNCHANGED <<viewer, mounts, originalBlob, uploads, storeVars>>

\* The toolbar's back button (PdfViewer.tsx 651; onBack, Sidebar.tsx 244-247):
\* the viewer is unmounted and its state is gone; a run in flight goes on.
Back ==
  /\ viewer # 0
  /\ viewer' = 0
  /\ isExporting' = FALSE
  /\ originalBlob' = "null"
  /\ UNCHANGED <<mounts, exports, uploads, storeVars>>

\* The same file is opened again (handleOpenFile, Sidebar.tsx 186-191): a new
\* PdfViewer instance starts from its initial state (PdfViewer.tsx 304-310)
\* and its load effect ends with the document's bytes, or without them when
\* the download failed (326-364).
Reopen ==
  /\ viewer = 0
  /\ mounts < MaxMounts
  /\ mounts' = mounts + 1
  /\ viewer' = mounts + 1
  /\ isExporting' = FALSE
  /\ originalBlob' \in {"blob", "null"}
  /\ UNCHANGED <<exports, uploads, storeVars>>

ExportInit ==
  /\ annotations \in ExportStores
  /\ StoreIdle
  /\ ExportIdle
  /\ ColorIdle
  /\ PageIdle
  /\ LoadIdle
  /\ AppIdle
  /\ DownloadIdle

ExportStep ==
  \/ ClickExport
  \/ \E e \in 1..MaxExports : ReadSettles(e)
  \/ \E e \in 1..MaxExports : LoadSettles(e)
  \/ \E e \in 1..MaxExports : PdfSaveSettles(e)
  \/ \E e \in 1..MaxExports : UploadSettles(e)
  \/ Back
  \/ Reopen

ExportNext == ExportStep /\ UNCHANGED <<colorVars, pageVars, loadVars, appVars,
  downloadVars>>

SpecExport == ExportInit /\ [][ExportNext]_vars

----------------------------------------------------------------------------
(* Properties of the export                                                *)

\* The annotations the loop draws: those on a page of the document that are
\* highlights or notes with a text.
Drawable(a) ==
  /\ a.page \in 1..Len(DocPageHeights)
  /\ (a.type = "highlight" \/ (a.type = "note" /\ a.text # <<>>))

Uploaded(e) == \E u \in DOMAIN uploads : uploads[u] = e

\* C2: a highlight with page-pixel bbox (x, y, w, h), captured at scale s on a
\* page of point height H, is drawn by the export at
\* (x/s, H - y/s - h/s, w/s, h/s), and the inverse transform of that rectangle
\* (times s, vertical axis flipped back) is (x, y, w, h) again.
C2_ExportGeometry ==
  \A e \in DOMAIN exports :
    \A i \in DOMAIN exports[e].drawn :
      LET d == exports[e].drawn[i]
          a == annotations[d.ann]
          x == a.bbox[1]
          y == a.bbox[2]
          w == a.bbox[3]
          h == a.bbox[4]
          H == DocPageHeights[a.page]
      IN d.type = "highlight" =>
           /\ RatEq(d.rect.x, Rat(10 * x, Scale10))
           /\ RatEq(d.rect.y, Rat(H * Scale10 - 10 * y - 10 * h, Scale10))
           /\ RatEq(d.rect.w, Rat(10 * w, Scale10))
           /\ RatEq(d.rect.h, Rat(10 * h, Scale10))
           /\ RatEq(TimesScale(d.rect.x), Rat(x, 1))
           /\ RatEq(TimesScale(RatSub(RatSub(Rat(H, 1), d.rect.y), d.rect.h)), Rat(y, 1))
           /\ RatEq(TimesScale(d.rect.w), Rat(w, 1))
           /\ RatEq(TimesScale(d.rect.h), Rat(h, 1))

\* The highlight (100, 50, 200, 20) of a 792-point page was drawn at
\* y = 792 - 50/1.3 - 20/1.3 = 9596/13 (738.15).
C2_Witness ==
  \E e \in DOMAIN exports :
    \E i \in DOMAIN exports[e].drawn :
      /\ exports[e].drawn[i].ann = 1
      /\ annotations[1].bbox = <<100, 50, 200, 20>>
      /\ RatEq(exports[e].drawn[i].rect.y, Rat(9596, 13))
      /\ RatEq(exports[e].drawn[i].rect.x, Rat(1000, 13))

\* C3: export is all-or-nothing: a run in which reading the bytes, loading
\* the document, drawing an annotation or saving fails never calls
\* uploadFileToDrive, and a run that does call it has drawn every annotation
\* the loop draws.
C3_ExportAllOrNothing ==
  \A e \in DOMAIN exports :
    /\ exports[e].failedAt \in {"read", "load", "draw", "save"} => ~Uploaded(e)
    /\ Uploaded(e) =>
         \A j \in DOMAIN annotations :
           Drawable(annotations[j]) =>
             \E i \in DOMAIN exports[e].drawn : exports[e].drawn[i].ann = j

\* A run failed in the middle of the loop, after it had drawn an annotation,
\* and nothing was uploaded.
C3_Witness ==
  /\ uploads = <<>>
  /\ \E e \in DOMAIN exports :
       /\ exports[e].failedAt = "draw"
       /\ Len(exports[e].drawn) >= 1

\* C8: at most one export is in flight at any time, and while one is in
\* flight the export buttons of the viewer are disabled.
C8_SingleExportInFlight ==
  /\ Cardinality({e \in DOMAIN exports : InFlight(e)}) <= 1
  /\ (viewer # 0 /\ \E e \in DOMAIN exports : InFlight(e)) => ~ExportButtonEnabled

\* The annotations run e has drawn on its document.
DrawnAnns(e) == {exports[e].drawn[i].ann : i \in DOMAIN exports[e].drawn}

\* C24: an export, whether it succeeds or fails at any step, leaves the
\* original bytes and the collection as they were; an export started after a
\* failed one works on a fresh copy of the original bytes with the same
\* annotations: once its loop has ended it has drawn every annotation the
\* loop draws exactly once, and nothing the failed run had drawn.
C24_ExportLeavesOriginal ==
  /\ [][exports' # exports =>
          /\ originalBlob' = originalBlob
          /\ annotations' = annotations]_vars
  /\ [](\A e \in DOMAIN exports :
          exports[e].pc \in {"save", "upload", "done"} =>
            /\ DrawnAnns(e) = {j \in DOMAIN annotations : Drawable(annotations[j])}
            /\ Len(exports[e].drawn) = Cardinality(DrawnAnns(e)))

\* The first run of the viewer failed after it had drawn annotations; the
\* second run, started from the same bytes, has ended its loop.
C24_Witness ==
  /\ Len(exports) = 2
  /\ exports[1].inst = exports[2].inst
  /\ exports[1].pc = "failed" /\ Len(exports[1].drawn) >= 1
  /\ exports[2].pc \in {"save", "upload", "done"}
  /\ Len(exports[2].drawn) >= 1
  /\ originalBlob = "blob"

\* C27: an annotation whose page is outside the document (after the last
\* page, or before the first) is skipped by the export and does not make it
\* fail: a run that failed in the loop stopped at an annotation the loop
\* draws, having drawn exactly the drawable annotations before it; and a run
\* whose loop has ended has drawn every annotation whose page is in range.
C27_OutOfRangeSkipped ==
  \A e \in DOMAIN exports :
    /\ exports[e].failedAt = "draw" =>
         \E j \in DOMAIN annotations :
           /\ Drawable(annotations[j])
           /\ DrawnAnns(e) = {i \in 1..(j - 1) : Drawable(annotations[i])}
    /\ exports[e].pc \in {"save", "upload", "done"} =>
         \A j \in DOMAIN annotations :
           Drawable(annotations[j]) => j \in DrawnAnns(e)

----------------------------------------------------------------------------
(* The colour filter matrix: filterValues (PdfViewer.tsx 606-629)          *)

\* The values of a channel the colour inputs are driven to, as two
\* hexadecimal digits: 00, 10, 7f, ff.
ChannelDigits == {<<0, 0>>, <<1, 0>>, <<7, 15>>, <<15, 15>>}

\* The values of <input type="color">: "#rrggbb".
HexColors ==
  {r \o g \o b : r \in ChannelDigits, g \in ChannelDigits, b \in ChannelDigits}

\* parseInt(hex.slice(1), 16)
RECURSIVE ParseHex(_)
ParseHex(ds) ==
  IF ds = <<>> THEN 0
  ELSE 16 * ParseHex(SubSeq(ds, 1, Len(ds) - 1)) + ds[Len(ds)]

\* n >> k on a non-negative 32-bit integer
ShiftRight(n, k) == n \div (2 ^ k)

\* A hexToRgb that does not mask the shifted value.
hexToRgbNoMask(hex) ==
  LET bigint == ParseHex(hex)
  IN <<ShiftRight(bigint, 16), ShiftRight(bigint, 8), bigint>>

\* hexToRgb (608-611): [(bigint >> 16) & 255, (bigint >> 8) & 255, bigint & 255]
hexToRgb(hex) ==
  LET bigint == ParseHex(hex)
  IN <<ShiftRight(bigint, 16) % 256, ShiftRight(bigint, 8) % 256, bigint % 256>>

\* filterValues (612-628): the 4 x 5 matrix of feColorMatrix. Every entry is
\* the numerator of a fraction over 255: rScale = (br - tr) / 255 is br - tr.
filterValues ==
  LET t == hexToRgb(textColor)
      b == hexToRgb(pageColor)
  IN << <<b[1] - t[1], 0, 0, 0, t[1]>>,
        <<0, b[2] - t[2], 0, 0, t[2]>>,
        <<0, 0, b[3] - t[3], 0, t[3]>>,
        <<0, 0, 0, 255, 0>> >>

\* feColorMatrix applied to a pixel <<R, G, B, A>> whose components are
\* numerators over 255: row r gives (sum_c M[r][c] * px[c] + M[r][5] * 255)
\* over 255 * 255.
ApplyMatrix(m, px) ==
  [r \in 1..4 |->
     m[r][1] * px[1] + m[r][2] * px[2] + m[r][3] * px[3] + m[r][4] * px[4]
       + m[r][5] * 255]

SetPageColor == \E c \in HexColors : pageColor' = c /\ UNCHANGED textColor

SetTextColor == \E c \in HexColors : textColor' = c /\ UNCHANGED pageColor

\* "Resetar Cores" (776)
ResetColors ==
  /\ pageColor' = <<15, 15, 15, 15, 15, 15>>
  /\ textColor' = <<0, 0, 0, 0, 0, 0>>

ColorInit ==
  /\ annotations \in {<<>>}
  /\ StoreIdle
  /\ ExportIdle
  /\ ColorIdle
  /\ PageIdle
  /\ LoadIdle
  /\ AppIdle
  /\ DownloadIdle

ColorStep ==
  \/ SetPageColor
  \/ SetTextColor
  \/ ResetColors

ColorNext == ColorStep /\ UNCHANGED <<storeVars, exportVars, pageVars, loadVars, appVars,
  downloadVars>>

SpecColor == ColorInit /\ [][ColorNext]_vars

\* The value of channel c (1: red, 2: green, 3: blue) of "#rrggbb".
Channel(hex, c) == 16 * hex[2 * c - 1] + hex[2 * c]

\* C6: for every page and text colour, on each channel c the matrix has
\* 255 * scale_c = bg_c - text_c and 255 * offset_c = text_c and no other
\* non-zero entry in the row, and the alpha row is 0 0 0 1 0; black maps to
\* the text colour and white to the page colour with alpha unchanged; white
\* page with black text gives scale 1 and offset 0, black page with white
\* text gives scale -1 and offset 1 on every channel.
C6_ColorFilterMatrix ==
  LET m == filterValues
  IN /\ \A c \in 1..3 :
          /\ m[c][c] = Channel(pageColor, c) - Channel(textColor, c)
          /\ m[c][5] = Channel(textColor, c)
          /\ \A k \in 1..4 : k # c => m[c][k] = 0
     /\ m[4] = <<0, 0, 0, 255, 0>>
     /\ \A a \in {0, 128, 255} :
          /\ ApplyMatrix(m, <<0, 0, 0, a>>) =
               [r \in 1..4 |-> 255 * (IF r = 4 THEN a ELSE Channel(textColor, r))]
          /\ ApplyMatrix(m, <<255, 255, 255, a>>) =
               [r \in 1..4 |-> 255 * (IF r = 4 THEN a ELSE Channel(pageColor, r))]
     /\ (\A c \in 1..3 : Channel(pageColor, c) = 255 /\ Channel(textColor, c) = 0)
          => \A c \in 1..3 : m[c][c] = 255 /\ m[c][5] = 0
     /\ (\A c \in 1..3 : Channel(pageColor, c) = 0 /\ Channel(textColor, c) = 255)
          => \A c \in 1..3 : m[c][c] = -255 /\ m[c][5] = 255

\* The inverted reading mode was set: black page, white text, and the matrix
\* has scale -1 and offset 1 on every channel.
C6_Witness ==
  /\ pageColor = <<0, 0, 0, 0, 0, 0>>
  /\ textColor = <<15, 15, 15, 15, 15, 15>>
  /\ \A c \in 1..3 : filterValues[c][c] = -255 /\ filterValues[c][5] = 255

----------------------------------------------------------------------------
(* The render effect of PdfPage (PdfViewer.tsx 115-166)                    *)
(*                                                                         *)
(* The effect depends on pdfDoc, pageNumber and scale. None of them changes *)
(* for a mounted page: setScale is never called (311), pageNumber is the    *)
(* page's key (802), and pdfDoc is set while the loader stands in for the   *)
(* page list (632-638). An effect therefore runs one pass, and is ended     *)
(* only by the unmounting of the page list.                                 *)

\* Page widths in points, next to DocPageHeights.
DocPageWidths == <<612, 595>>

\* What getTextContent() returns for a page: no item, one item, a blank
\* item, an item and a blank item.
ItemLists == {<<>>, << <<"a">> >>, << <<" ">> >>, << <<"a">>, <<" ">> >>}

\* page.getViewport({ scale }) (123), in tenths of a pixel.
Viewport10(p) ==
  [w |-> DocPageWidths[p] * Scale10, h |-> DocPageHeights[p] * Scale10]

\* A canvas sized in device pixels on a display of pixel ratio 2.
ToCanvasSizeHiDpi(v10) == (v10 * 2) \div 10

\* canvas.width = v: the attribute is an integer, the fraction is dropped.
ToCanvasSize(v10) == v10 \div 10

\* A ref that stays attached after the element is removed.
AttachedAlways(mounted) == TRUE

\* canvasRef.current and textLayerRef.current (109-110): the element while
\* the page is in the DOM, null once React has removed it.
Attached(mounted) == mounted

\* A test on the non-blank items only.
HasTextNonBlank(items) == \E i \in DOMAIN items : Trim(items[i]) # <<>>

\* textContent.items.length > 0 (146)
HasText(items) == Len(items) > 0

\* renderCustomTextLayer (32-76): one span per item that is not blank.
RenderCustomTextLayer(items) == SelectSeq(items, LAMBDA str : Trim(str) # <<>>)

\* A catch that marks the page as rendered.
CaughtMarksRendered(pg) ==
  [pg EXCEPT !.pc = "done", !.logged = TRUE, !.rendered = TRUE]

\* catch (err) { console.error(...) } (159-161): the pass ends.
Caught(pg) == [pg EXCEPT !.pc = "done", !.logged = TRUE]

\* A test that renders only a page that was rendered before.
MustRenderInverted(pg, vp) == pg.canvas.w * 10 # vp.w /\ pg.closureRendered

\* canvas.width !== viewport.width || !rendered (131); rendered is the value
\* the effect closed over.
MustRender(pg, vp) == pg.canvas.w * 10 # vp.w \/ ~pg.closureRendered

\* The continuation after await pdfDoc.getPage (122-133).
AfterGetPage(pg, p, ok) ==
  LET vp == Viewport10(p)
  IN IF ~ok THEN Caught(pg)
     ELSE IF ~Attached(pageMounted) THEN Caught(pg)
     ELSE IF MustRender(pg, vp)
          THEN [pg EXCEPT !.canvas = [w |-> ToCanvasSize(vp.w),
                                      h |-> ToCanvasSize(vp.h)],
                          !.pc = "render"]
          ELSE [pg EXCEPT !.pc = "done"]

\* The continuation after await page.render(...).promise (140-143).
AfterRender(pg, ok) ==
  IF ok THEN [pg EXCEPT !.pc = "getText"] ELSE Caught(pg)

\* A state update of a component that is no longer mounted is dropped.
SetState(pg, field, v) ==
  IF pageMounted THEN [pg EXCEPT ![field] = v] ELSE pg

\* The continuation after await page.getTextContent() (143-157).
AfterGetText(pg, p, ok) ==
  LET vp == Viewport10(p)
      s1 == IF pg.active THEN SetState(pg, "hasText", HasText(docText[p])) ELSE pg
      s2 == [s1 EXCEPT !.overlay.w = vp.w, !.overlay.h = vp.h]
      s3 == IF pg.active
            THEN SetState([s2 EXCEPT !.overlay.spans =
                                       RenderCustomTextLayer(docText[p])],
                          "rendered", TRUE)
            ELSE s2
  IN IF ~ok THEN Caught(pg)
     ELSE IF ~Attached(pageMounted) THEN Caught(s1)
     ELSE [s3 EXCEPT !.pc = "done"]

\* A continuation that runs after the page list has left the DOM.
Stale(pg) == [pg EXCEPT !.stale = ~pageMounted]

GetPageSettles(p) ==
  /\ pages[p].pc = "getPage"
  /\ \E ok \in BOOLEAN :
       pages' = [pages EXCEPT ![p] = Stale(AfterGetPage(pages[p], p, ok))]
  /\ UNCHANGED <<pageMounted, docText>>

RenderSettles(p) ==
  /\ pages[p].pc = "render"
  /\ \E ok \in BOOLEAN :
       pages' = [pages EXCEPT ![p] = Stale(AfterRender(pages[p], ok))]
  /\ UNCHANGED <<pageMounted, docText>>

GetTextSettles(p) ==
  /\ pages[p].pc = "getText"
  /\ \E ok \in BOOLEAN :
       pages' = [pages EXCEPT ![p] = Stale(AfterGetText(pages[p], p, ok))]
  /\ UNCHANGED <<pageMounted, docText>>

\* The page list leaves the DOM (onBack, 651, or the loader, 632-638): React
\* detaches the refs of every page.
UnmountPages ==
  /\ pageMounted
  /\ pageMounted' = FALSE
  /\ UNCHANGED <<docText, pages>>

\* The cleanup of the effect of every removed page (165).
CleanupPages ==
  /\ ~pageMounted
  /\ \E p \in Pages : pages[p].active
  /\ pages' = [p \in Pages |-> [pages[p] EXCEPT !.active = FALSE]]
  /\ UNCHANGED <<pageMounted, docText>>

PageInit ==
  /\ annotations \in {<<>>}
  /\ StoreIdle
  /\ ExportIdle
  /\ ColorIdle
  /\ LoadIdle
  /\ AppIdle
  /\ DownloadIdle
  /\ pageMounted = TRUE
  /\ docText \in [Pages -> ItemLists]
  /\ pages = [p \in Pages |-> InitPage]

PageStep ==
  \/ \E p \in Pages : GetPageSettles(p)
  \/ \E p \in Pages : RenderSettles(p)
  \/ \E p \in Pages : GetTextSettles(p)
  \/ UnmountPages
  \/ CleanupPages

PageNext == PageStep /\ UNCHANGED <<storeVars, exportVars, colorVars, loadVars, appVars,
  downloadVars>>

SpecPage == PageInit /\ [][PageNext]_vars

----------------------------------------------------------------------------
(* Properties of the render effect                                         *)

\* C7: once the render of a page has completed, hasText is false if
\* getTextContent returned no item and true if it returned at least one.
C7_HasTextAfterRender ==
  \A p \in Pages :
    pages[p].rendered =>
      /\ Len(docText[p]) = 0 => pages[p].hasText = FALSE
      /\ Len(docText[p]) >= 1 => pages[p].hasText = TRUE

\* Both pages are rendered: page 1 has no item and is flagged, page 2 has
\* an item.
C7_Witness ==
  /\ pages[1].rendered /\ docText[1] = <<>> /\ ~pages[1].hasText
  /\ pages[2].rendered /\ Len(docText[2]) >= 1 /\ pages[2].hasText

C9_StaleRenderDiscarded ==
  [][~pageMounted =>
       \A p \in Pages :
         /\ pages'[p].canvas = pages[p].canvas
         /\ pages'[p].overlay = pages[p].overlay
         /\ pages'[p].rendered = pages[p].rendered
         /\ pages'[p].hasText = pages[p].hasText]_vars

\* The page list was torn down while page 1 waited for getPage and page 2
\* for getTextContent; both continuations ran afterwards and ended.
C9_Witness ==
  /\ ~pageMounted
  /\ pages[1].stale /\ pages[1].pc = "done"
  /\ pages[1].canvas = InitPage.canvas
  /\ pages[2].stale /\ pages[2].pc = "done"
  /\ pages[2].canvas # InitPage.canvas /\ pages[2].overlay = InitPage.overlay
  /\ ~pages[2].rendered /\ pages[2].hasText

\* C10: a failure of any step of the render of a page is caught and leaves
\* that page with rendered = false; the step changes nothing of any other
\* page, and a pass of another page that has not ended can still take its
\* next step.
C10_RenderFailureIsolated ==
  /\ [](\A p \in Pages : pages[p].logged => ~pages[p].rendered)
  /\ [][\A p \in Pages :
          (pages'[p].logged /\ ~pages[p].logged) =>
            /\ ~pages'[p].rendered
            /\ pages'[p].pc = "done"
            /\ \A q \in Pages \ {p} : pages'[q] = pages[q]]_vars
  /\ [](\A q \in Pages :
          pages[q].pc # "done" =>
            ENABLED (GetPageSettles(q) \/ RenderSettles(q) \/ GetTextSettles(q)))

\* In the mounted page list the render of page 1 failed and page 1 is not
\* rendered, while page 2 is rendered.
C10_Witness ==
  /\ pageMounted
  /\ pages[1].logged /\ ~pages[1].rendered /\ pages[1].pc = "done"
  /\ pages[2].rendered /\ ~pages[2].logged

----------------------------------------------------------------------------
(* Properties of the selection handler and of the collection's order       *)

\* s is t with some elements left out, the others in the order of t.
RECURSIVE IsSubseq(_, _)
IsSubseq(s, t) ==
  IF s = <<>> THEN TRUE
  ELSE IF t = <<>> THEN FALSE
  ELSE IF Head(s) = Head(t) THEN IsSubseq(Tail(s), Tail(t))
  ELSE IsSubseq(s, Tail(t))

\* C11: a selection event changes the pending selection and nothing else: it
\* adds no annotation and issues no save call; the collection grows only in
\* a createHighlight or a createTextNote step.
C11_SelectionCreatesNothing ==
  [][ /\ op' \in MouseUpOps =>
           /\ annotations' = annotations
           /\ saveCalls' = saveCalls
           /\ saves' = saves
           /\ isSaving' = isSaving
           /\ activeTool' = activeTool
           /\ highlightColor' = highlightColor
           /\ highlightOpacity' = highlightOpacity
      /\ Len(annotations') > Len(annotations) =>
           op' \in {"createHighlight", "createTextNote"} ]_vars

\* A selection is pending after a mouse-up and the collection is still empty,
\* with no save call issued.
C11_Witness ==
  /\ op = "handleMouseUp"
  /\ selection # Null
  /\ annotations = <<>>
  /\ saveCalls = 0

C15_TextToolSuspendsTracking ==
  [][ (op' \in MouseUpOps /\ activeTool = "text") => selection' = selection ]_vars

\* A selection made in cursor mode is still pending after a mouse-up outside
\* the chrome that happened with the text tool active.
C15_Witness ==
  /\ op = "handleMouseUp"
  /\ activeTool = "text"
  /\ selection # Null

\* C16: a mouse-up whose target is inside a button, an input, a select or an
\* annotation element leaves the pending selection as it was, whatever the
\* platform selection is.
C16_ChromeKeepsSelection ==
  [][ op' = "handleMouseUp:chrome" =>
        \A ps \in ChromeSelections :
          MouseUpWith(TRUE, ps) => selection' = selection ]_vars

\* In cursor mode a mouse-up inside the chrome left a pending selection in
\* place.
C16_Witness ==
  /\ op = "handleMouseUp:chrome"
  /\ activeTool = "cursor"
  /\ selection # Null

\* C17: in cursor mode a mouse-up outside the chrome that finds no platform
\* selection, a collapsed one, or one whose text is blank clears the pending
\* selection; createHighlight clears it as well.
C17_EmptySelectionClears ==
  [][ /\ op' \in MouseUpOps => \A ps \in PlatformSelections :
           ( /\ MouseUpWith(FALSE, ps)
             /\ activeTool = "cursor"
             /\ (ps.kind = "none" \/ \A i \in DOMAIN ps.text : ps.text[i] = " ") )
           => selection' = Null
      /\ op' = "createHighlight" => selection' = Null ]_vars

\* A pending selection was cleared by a mouse-up that found no selected text.
C17_Witness ==
  /\ op = "handleMouseUp:cleared"
  /\ activeTool = "cursor"
  /\ selection = Null

\* C18: a release event only moves the tracker to its pending state: the
\* step of the event itself does not inspect the platform selection, so it
\* leaves the pending selection as it was; the inspection comes later.
C18_InspectionAfterSettleDelay ==
  [][ op' \in {"handleMouseUp", "handleMouseUp:cleared"} =>
        selection' = selection ]_vars

----------------------------------------------------------------------------
(* Persistence of new records: createHighlight with the saveAnnotation     *)
(* calls of saveAnnotationsList settling (PdfViewer.tsx 481-492)           *)

SaveInit ==
  /\ annotations \in {<<>>}
  /\ StoreIdle
  /\ ExportIdle
  /\ ColorIdle
  /\ PageIdle
  /\ LoadIdle
  /\ AppIdle
  /\ DownloadIdle

SaveStep ==
  \/ MouseUp
  \/ CreateHighlight
  \/ SetActiveTool
  \/ CreateTextNote
  \/ \E j \in 1..MaxAnns : SaveResolve(j)
  \/ \E j \in 1..MaxAnns : SaveReject(j)

SaveNext == SaveStep /\ UNCHANGED <<exportVars, colorVars, pageVars, loadVars, appVars,
  downloadVars>>

SpecSave == SaveInit /\ [][SaveNext]_vars

\* The records created in this session: they carry no id.
NewRecords == {i \in DOMAIN annotations : annotations[i].id = NoId}

\* C13: every new record of a batch gets its own saveAnnotation call, whether
\* or not the call of another record of the batch failed: once no batch is
\* in flight, as many calls were issued as records were created.
C13_EveryRecordSaved ==
  saves = <<>> => saveCalls = Cardinality(NewRecords)

\* C22: the saving indicator reflects the persistence work in flight: while
\* at least one batch started by createHighlight or createTextNote has not
\* finished, isSaving is on, also when two batches overlap and one of them
\* finishes before the other.
C22_IndicatorWhileSaving ==
  saves # <<>> => isSaving

\* C23: a failed save does not roll back the local state: the step in which
\* a saveAnnotation call fails leaves the collection as it was, so the
\* records added by createHighlight or createTextNote are all still there,
\* in the same positions; and no step other than a creation changes the
\* collection while saves are in flight.
C23_FailedSaveKeepsAnnotations ==
  [][ /\ op' = "saveReject" => annotations' = annotations
      /\ op' \in {"saveReject", "saveResolve"} =>
           /\ Len(annotations') = Len(annotations)
           /\ \A i \in DOMAIN annotations : annotations'[i] = annotations[i] ]_vars

\* A save of a batch has just failed and the two records created in the
\* session, a highlight and a note, are in the collection.
C23_Witness ==
  /\ op = "saveReject"
  /\ Len(annotations) = 2
  /\ annotations[1].id = NoId /\ annotations[1].type = "highlight"
  /\ annotations[2].id = NoId /\ annotations[2].type = "note"

----------------------------------------------------------------------------
(* Selection, scrolling and confirmation                                   *)

SelectInit ==
  /\ annotations \in {<<>>}
  /\ StoreIdle
  /\ ExportIdle
  /\ ColorIdle
  /\ PageIdle
  /\ LoadIdle
  /\ AppIdle
  /\ DownloadIdle

SelectStep ==
  \/ MouseUp
  \/ Scroll
  \/ CreateHighlight
  \/ SetActiveTool

SelectNext == SelectStep /\ UNCHANGED <<exportVars, colorVars, pageVars, loadVars, appVars,
  downloadVars>>

SpecSelect == SelectInit /\ [][SelectNext]_vars

\* The origin of the page container when the selection was captured, from
\* the tooltip position, which handleMouseUp stores relative to it.
CaptureOrigin(sel) ==
  [left |-> sel.rects[1].left + (sel.rects[1].width \div 2) - sel.x,
   top  |-> sel.rects[1].top - 5 - sel.y]

\* C19: the bbox of each highlight created on confirmation is the
\* selection's rectangle minus the page container's origin at the time the
\* selection was captured, whatever was scrolled in between.
C19_PageRelativeRects ==
  [][ op' = "createHighlight" =>
        LET sel  == selection[1]
            base == Len(annotations)
            orig == CaptureOrigin(sel)
        IN \A i \in 1..Len(sel.rects) :
             annotations'[base + i].bbox =
               << sel.rects[i].left - orig.left,
                  sel.rects[i].top - orig.top,
                  sel.rects[i].width,
                  sel.rects[i].height >> ]_vars

----------------------------------------------------------------------------
(* Loading the document: the load effect of PdfViewer (PdfViewer.tsx       *)
(* 325-364) inside the viewer branch of App (Sidebar.tsx 221-250)          *)

\* A file is opened from its blob (handleLocalUpload) or from Drive
\* (handleOpenFile).
Sources == {"local", "drive"}

\* The uid prop of the viewer: "guest" for a local file (Sidebar.tsx 228),
\* user.uid for a Drive file (242).
Uids(source) == IF source = "local" THEN {"guest"} ELSE {"u1", "u2"}

\* What loadAnnotations resolves to.
StoredAnnotations == {<<>>, <<LoadedNote("a1", 1)>>}

\* init() up to its first await (329-342): a local blob is at hand and is
\* stored at once, a Drive file is downloaded first.
StartLoad(inst, source, uid) ==
  [inst |-> inst, source |-> source, uid |-> uid, mounted |-> TRUE,
   failedAt |-> "none",
   pc |-> IF source = "local" THEN "arrayBuffer" ELSE "download"]

\* A state update reaches the instance that runs init() only while that
\* instance is the mounted viewer.
Live(e) == loads[e].inst = viewer

\* catch and finally (353-359): the error is logged and shown with alert(),
\* and setLoading(false) is called if the effect is still mounted.
LoadFailed(e, at) ==
  /\ loads' = [loads EXCEPT ![e].pc = "done", ![e].failedAt = at]
  /\ loading' = IF loads[e].mounted /\ Live(e) THEN FALSE ELSE loading
  /\ viewer' = viewer

\* await downloadDriveFile settles (336), then if (mounted) setOriginalBlob.
DownloadSettles(e) ==
  /\ e \in DOMAIN loads
  /\ loads[e].pc = "download"
  /\ \E ok \in BOOLEAN :
       IF ok
         THEN /\ loads' = [loads EXCEPT ![e].pc = "arrayBuffer"]
              /\ originalBlob' = IF loads[e].mounted /\ Live(e)
                                   THEN "blob" ELSE originalBlob
              /\ UNCHANGED <<loading, viewer>>
         ELSE /\ LoadFailed(e, "download")
              /\ UNCHANGED originalBlob
  /\ UNCHANGED <<pdfDoc, mounts, isExporting, exports, uploads, storeVars>>

\* await blob.arrayBuffer() settles (343).
ArrayBufferSettles(e) ==
  /\ e \in DOMAIN loads
  /\ loads[e].pc = "arrayBuffer"
  /\ \E ok \in BOOLEAN :
       IF ok
         THEN /\ loads' = [loads EXCEPT ![e].pc = "getDocument"]
              /\ UNCHANGED <<loading, viewer>>
         ELSE LoadFailed(e, "arrayBuffer")
  /\ UNCHANGED <<pdfDoc, originalBlob, mounts, isExporting, exports, uploads,
                 storeVars>>

\* await getDocument(...).promise settles (344): if (mounted), setPdfDoc and
\* setNumPages, then loadAnnotations is awaited; otherwise the finally block.
GetDocumentSettles(e) ==
  /\ e \in DOMAIN loads
  /\ loads[e].pc = "getDocument"
  /\ \E ok \in BOOLEAN :
       IF ok
         THEN /\ loads' = [loads EXCEPT ![e].pc =
                             IF loads[e].mounted THEN "loadAnnotations" ELSE "done"]
              /\ pdfDoc' = IF loads[e].mounted /\ Live(e) THEN "doc" ELSE pdfDoc
              /\ UNCHANGED <<loading, viewer>>
         ELSE /\ LoadFailed(e, "getDocument")
              /\ UNCHANGED pdfDoc
  /\ UNCHANGED <<originalBlob, mounts, isExporting, exports, uploads, storeVars>>

\* await loadAnnotations settles (349-350): setAnnotations, then the finally
\* block.
LoadAnnotationsSettles(e) ==
  /\ e \in DOMAIN loads
  /\ loads[e].pc = "loadAnnotations"
  /\ \E ok \in BOOLEAN :
       IF ok
         THEN /\ \E existingAnns \in StoredAnnotations :
                   annotations' = IF Live(e) THEN existingAnns ELSE annotations
              /\ loads' = [loads EXCEPT ![e].pc = "done"]
              /\ loading' = IF loads[e].mounted /\ Live(e) THEN FALSE ELSE loading
              /\ UNCHANGED viewer
         ELSE /\ LoadFailed(e, "loadAnnotations")
              /\ UNCHANGED annotations
  /\ UNCHANGED <<pdfDoc, originalBlob, mounts, isExporting, exports, uploads,
                 selection, activeTool, highlightColor, highlightOpacity,
                 isSaving, scrollY, saves, saveCalls, op>>

\* The viewer is unmounted: the cleanup of its load effect sets mounted to
\* false (363), and the state of the instance is gone.
Unmounted ==
  /\ viewer' = 0
  /\ loads' = [e \in DOMAIN loads |->
                IF Live(e) THEN [loads[e] EXCEPT !.mounted = FALSE] ELSE loads[e]]
  /\ loading' = TRUE
  /\ pdfDoc' = "null"
  /\ originalBlob' = "null"
  /\ annotations' = <<>>
  /\ UNCHANGED <<mounts, isExporting, exports, uploads, selection, activeTool,
                 highlightColor, highlightOpacity, isSaving, scrollY, saves,
                 saveCalls, op>>

\* The back arrow of the toolbar (651), which is rendered once loading is
\* false (632-638): onBack (Sidebar.tsx 229-232, 244-247).
LoadBack ==
  /\ viewer # 0
  /\ ~loading
  /\ Unmounted

\* onAuthStateChanged with no user (Sidebar.tsx 115-127): the application
\* goes to the dashboard, whatever the viewer is doing.
AuthLost ==
  /\ viewer # 0
  /\ Unmounted

\* The run of init() started last by the mounted viewer.
CurrentLoad ==
  CHOOSE e \in DOMAIN loads :
    /\ Live(e)
    /\ \A f \in DOMAIN loads : Live(f) => f <= e

\* onAuthStateChanged with another user (Sidebar.tsx 116-117) while a Drive
\* file is shown: the viewer stays mounted and gets a new uid prop (242), a
\* dependency of the load effect (364). The cleanup of the previous run sets
\* its mounted to false (363) and init() runs again: setLoading(true), then
\* the download (330-336).
AuthUserChanged ==
  /\ viewer # 0
  /\ Len(loads) < MaxLoads
  /\ loads[CurrentLoad].source = "drive"
  /\ \E uid \in Uids("drive") \ {loads[CurrentLoad].uid} :
       loads' = Append([e \in DOMAIN loads |->
                          IF Live(e) THEN [loads[e] EXCEPT !.mounted = FALSE]
                                     ELSE loads[e]],
                       StartLoad(viewer, "drive", uid))
  /\ loading' = TRUE
  /\ UNCHANGED <<pdfDoc, annotations, viewer, mounts, originalBlob, isExporting,
                 exports, uploads, selection, activeTool, highlightColor,
                 highlightOpacity, isSaving, scrollY, saves, saveCalls, op>>

\* handleOpenFile / handleLocalUpload (Sidebar.tsx 186-207): a new viewer is
\* mounted and its load effect starts.
OpenFile ==
  /\ viewer = 0
  /\ mounts < MaxMounts
  /\ mounts' = mounts + 1
  /\ viewer' = mounts + 1
  /\ Len(loads) < MaxLoads
  /\ \E source \in Sources :
       /\ \E uid \in Uids(source) :
            loads' = Append(loads, StartLoad(mounts + 1, source, uid))
       /\ originalBlob' = IF source = "local" THEN "blob" ELSE "null"
  /\ loading' = TRUE
  /\ pdfDoc' = "null"
  /\ annotations' = <<>>
  /\ UNCHANGED <<isExporting, exports, uploads, selection, activeTool,
                 highlightColor, highlightOpacity, isSaving, scrollY, saves,
                 saveCalls, op>>

LoadInit ==
  /\ StoreIdle
  /\ AppIdle
  /\ DownloadIdle
  /\ ColorIdle
  /\ PageIdle
  /\ annotations = <<>>
  /\ viewer = 1
  /\ mounts = 1
  /\ isExporting = FALSE
  /\ exports = <<>>
  /\ uploads = <<>>
  /\ loading = TRUE
  /\ pdfDoc = "null"
  /\ \E source \in Sources :
       /\ \E uid \in Uids(source) : loads = <<StartLoad(1, source, uid)>>
       /\ originalBlob = IF source = "local" THEN "blob" ELSE "null"

LoadStep ==
  \/ \E e \in 1..MaxLoads : DownloadSettles(e)
  \/ \E e \in 1..MaxLoads : ArrayBufferSettles(e)
  \/ \E e \in 1..MaxLoads : GetDocumentSettles(e)
  \/ \E e \in 1..MaxLoads : LoadAnnotationsSettles(e)
  \/ LoadBack
  \/ AuthLost
  \/ AuthUserChanged
  \/ OpenFile

LoadNext == LoadStep /\ UNCHANGED <<colorVars, pageVars, appVars,
  downloadVars>>

SpecLoad == LoadInit /\ [][LoadNext]_vars

\* C12: when loading the document fails, the viewer is left: it does not
\* stay open, past its loader, without a document.
C12_FailedLoadLeavesViewer ==
  \A e \in DOMAIN loads :
    (loads[e].failedAt \in {"download", "arrayBuffer", "getDocument"} /\ Live(e))
      => ~(viewer # 0 /\ ~loading /\ pdfDoc = "null")

\* C26: what was loaded for one file never ends up in the viewer of another:
\* once the viewer's file, user or source has changed, or the viewer was
\* torn down, a step of the load that was in flight for the former one
\* changes neither the document nor the original bytes nor the annotation
\* list nor the loader of the viewer.
C26_SupersededLoadDiscarded ==
  [][\A e \in DOMAIN loads :
       (~loads[e].mounted /\ loads'[e].pc # loads[e].pc) =>
         /\ annotations' = annotations
         /\ pdfDoc' = pdfDoc
         /\ originalBlob' = originalBlob
         /\ loading' = loading]_vars

----------------------------------------------------------------------------
(* The application shell: App (Sidebar.tsx 95-250)                         *)

DriveFiles == {"f1", "f2"}

AppUsers == {"u1"}

\* Everything but "Carregando..." is rendered once the first auth callback
\* has arrived (Sidebar.tsx 214-216).
Shown == ~loadingAuth

\* The file the viewer branch renders (Sidebar.tsx 221-250): the local file
\* if there is one, else the selected Drive file if there are a token and a
\* user, else nothing.
Displayed ==
  IF currentView # "viewer" THEN "none"
  ELSE IF localFile # "null" THEN localFile
  ELSE IF selectedFile # "null" /\ accessToken # "null" /\ user # "null"
         THEN selectedFile
  ELSE "none"

\* The callback of onAuthStateChanged (Sidebar.tsx 116-125): the auth library
\* calls it once at start-up and then at every sign-in and sign-out.
AuthStateChanged(currentUser) ==
  /\ loadingAuth \/ currentUser # user
  /\ user' = currentUser
  /\ IF currentUser = "null"
       THEN /\ accessToken' = "null"
            /\ selectedFile' = "null"
            /\ currentView' = "dashboard"
       ELSE UNCHANGED <<accessToken, selectedFile, currentView>>
  /\ loadingAuth' = FALSE
  /\ op' = "onAuthStateChanged"
  /\ UNCHANGED <<localFile, logins, logouts>>

\* handleLogin up to its await (Sidebar.tsx 138-141), from the buttons of the
\* browser view of a guest or of a user without a token (268-312).
LoginClick ==
  /\ Shown
  /\ currentView = "browser"
  /\ user = "null" \/ accessToken = "null"
  /\ logins < MaxPending
  /\ logins' = logins + 1
  /\ op' = "handleLogin"
  /\ UNCHANGED <<user, accessToken, loadingAuth, currentView, selectedFile,
                 localFile, logouts>>

\* signInWithGoogleDrive settles (Sidebar.tsx 141-166): the token is stored,
\* or the error is shown.
LoginSettles ==
  /\ logins > 0
  /\ logins' = logins - 1
  /\ \E ok \in BOOLEAN : accessToken' = IF ok THEN "tok" ELSE accessToken
  /\ op' = "handleLogin:settled"
  /\ UNCHANGED <<user, loadingAuth, currentView, selectedFile, localFile,
                 logouts>>

\* handleLogout up to its await (Sidebar.tsx 169-171), from the button of
\* the side bar (src/components/Sidebar.tsx 41-68) or of the Drive browser.
LogoutClick ==
  /\ Shown
  /\ currentView # "viewer"
  /\ user # "null"
  /\ logouts < MaxPending
  /\ logouts' = logouts + 1
  /\ op' = "handleLogout"
  /\ UNCHANGED <<user, accessToken, loadingAuth, currentView, selectedFile,
                 localFile, logins>>

\* logout() settles (Sidebar.tsx 171-177); a rejection leaves the handler.
LogoutSettles ==
  /\ logouts > 0
  /\ logouts' = logouts - 1
  /\ \E ok \in BOOLEAN :
       IF ok THEN /\ accessToken' = "null"
                  /\ localFile' = "null"
                  /\ selectedFile' = "null"
                  /\ currentView' = "dashboard"
             ELSE UNCHANGED <<accessToken, localFile, selectedFile, currentView>>
  /\ op' = "handleLogout:settled"
  /\ UNCHANGED <<user, loadingAuth, logins>>

\* handleAuthError (Sidebar.tsx 181-184), called by the Drive browser.
HandleAuthError ==
  /\ Shown
  /\ currentView = "browser" /\ user # "null" /\ accessToken # "null"
  /\ accessToken' = "null"
  /\ op' = "handleAuthError"
  /\ UNCHANGED <<user, loadingAuth, currentView, selectedFile, localFile,
                 logins, logouts>>

\* handleOpenFile (Sidebar.tsx 186-191), handed to the dashboard (321-325)
\* and to the Drive browser (332-336).
HandleOpenFile(file) ==
  /\ Shown
  /\ \/ currentView = "dashboard"
     \/ currentView = "browser" /\ user # "null" /\ accessToken # "null"
  /\ selectedFile' = file
  /\ currentView' = "viewer"
  /\ op' = "handleOpenFile"
  /\ UNCHANGED <<user, accessToken, loadingAuth, localFile, logins, logouts>>

\* handleLocalUpload (Sidebar.tsx 193-207), handed to the dashboard: with a
\* chosen file, or with none.
HandleLocalUpload ==
  /\ Shown
  /\ currentView = "dashboard"
  /\ \E chosen \in BOOLEAN :
       IF chosen THEN /\ localFile' = "l1"
                      /\ currentView' = "viewer"
                 ELSE UNCHANGED <<localFile, currentView>>
  /\ op' = "handleLocalUpload"
  /\ UNCHANGED <<user, accessToken, loadingAuth, selectedFile, logins, logouts>>

\* handleChangeView (Sidebar.tsx 209-212), from the side bar.
HandleChangeView(view) ==
  /\ Shown
  /\ currentView # "viewer"
  /\ currentView' = view
  /\ op' = "handleChangeView"
  /\ UNCHANGED <<user, accessToken, loadingAuth, selectedFile, localFile,
                 logins, logouts>>

\* onBack of the viewer of a local file (Sidebar.tsx 229-232).
OnBackLocal ==
  /\ Shown
  /\ currentView = "viewer" /\ localFile # "null"
  /\ localFile' = "null"
  /\ currentView' = "dashboard"
  /\ op' = "onBack"
  /\ UNCHANGED <<user, accessToken, loadingAuth, selectedFile, logins, logouts>>

\* onBack of the viewer of a Drive file (Sidebar.tsx 244-247).
OnBackDrive ==
  /\ Shown
  /\ currentView = "viewer" /\ localFile = "null"
  /\ selectedFile # "null" /\ accessToken # "null" /\ user # "null"
  /\ selectedFile' = "null"
  /\ currentView' = "dashboard"
  /\ op' = "onBack"
  /\ UNCHANGED <<user, accessToken, loadingAuth, localFile, logins, logouts>>

\* App after its first render (Sidebar.tsx 96-113): the token comes from
\* sessionStorage, which may hold one.
AppInit ==
  /\ annotations = <<>>
  /\ DownloadIdle
  /\ StoreIdle
  /\ ExportIdle
  /\ ColorIdle
  /\ PageIdle
  /\ LoadIdle
  /\ user = "null"
  /\ accessToken \in {"null", "tok"}
  /\ loadingAuth = TRUE
  /\ currentView = "dashboard"
  /\ selectedFile = "null"
  /\ localFile = "null"
  /\ logins = 0
  /\ logouts = 0

AppStep ==
  \/ \E currentUser \in AppUsers \cup {"null"} : AuthStateChanged(currentUser)
  \/ LoginClick
  \/ LoginSettles
  \/ LogoutClick
  \/ LogoutSettles
  \/ HandleAuthError
  \/ \E file \in DriveFiles : HandleOpenFile(file)
  \/ HandleLocalUpload
  \/ \E view \in {"dashboard", "browser"} : HandleChangeView(view)
  \/ OnBackLocal
  \/ OnBackDrive

AppNext ==
  AppStep /\ UNCHANGED <<annotations, selection, activeTool, highlightColor,
                         highlightOpacity, isSaving, scrollY, saves, saveCalls,
                         exportVars, colorVars, pageVars, loadVars,
                         downloadVars>>

SpecApp == AppInit /\ [][AppNext]_vars

\* C28: whenever the current view is 'viewer', a viewer is shown: there is a
\* local file, or there are a selected Drive file, an access token and a
\* user.
C28_ViewerViewShowsViewer ==
  currentView = "viewer" =>
    \/ localFile # "null"
    \/ selectedFile # "null" /\ accessToken # "null" /\ user # "null"

\* C29: the file the viewer shows is the one opened last: no local file is
\* retained while the view is not 'viewer', and after handleOpenFile the
\* viewer does not show a local file uploaded before.
C29_NoLocalFileRetained ==
  /\ [](currentView # "viewer" => localFile = "null")
  /\ [][op' = "handleOpenFile" => Displayed' # localFile]_vars

----------------------------------------------------------------------------
(* downloadDriveFile (driveService.ts 35-51)                               *)

\* The messages of the errors thrown (42, 46, 48), without diacritics.
PermissionDenied == "Permissao negada (403). Verifique se a API do Drive esta ativada."
DownloadError == "Erro no download"
DownloadFailure == "Falha no download do Drive"

\* The body of a response that is not OK: text that is not JSON, or a JSON
\* value with or without error.message ("undefined": none; "": empty).
Bodies ==
  [parses : {FALSE}, message : {"undefined"}] \cup
  [parses : {TRUE}, message : {"undefined", "", "File not found", "Rate limit exceeded"}]

\* What fetch resolves to: res.ok is true for the status 200, false for 401,
\* 403, 404 and 500.
Responses ==
  [ok : {TRUE}, status : {200}, body : [parses : {FALSE}, message : {"undefined"}]] \cup
  [ok : {FALSE}, status : {401, 403, 404, 500}, body : Bodies]

\* err.error?.message || "Erro no download" (46)
ServerMessage(body) ==
  IF body.message \in {"undefined", ""} THEN DownloadError ELSE body.message

\* The try block (44-47): res.json() rejects when the body is not JSON, and
\* the statement after it throws the server's message; either way the block
\* is left with an exception.
TryThrows(body) ==
  IF ~body.parses THEN "SyntaxError" ELSE ServerMessage(body)

\* The catch block (47-49) takes whatever the try block threw, the error
\* thrown at line 46 included, and throws the generic failure.
CatchThrows(thrown) == DownloadFailure

NoResponse == [ok |-> FALSE, status |-> 0, body |-> [parses |-> FALSE, message |-> "undefined"]]

\* A call: fetch is awaited (36-39).
DownloadCall ==
  /\ Len(downloads) < MaxDownloads
  /\ downloads' = Append(downloads, [pc |-> "fetch", res |-> NoResponse,
                                     result |-> "pending", message |-> ""])

\* fetch resolves with a response (41-43, 51): an OK response gives the blob,
\* a 403 the permission error, another status goes on to res.json().
FetchSettles(d) ==
  /\ d \in DOMAIN downloads
  /\ downloads[d].pc = "fetch"
  /\ \E res \in Responses :
       downloads' =
         [downloads EXCEPT ![d] =
            IF res.ok
              THEN [pc |-> "done", res |-> res, result |-> "blob", message |-> ""]
            ELSE IF res.status = 403
              THEN [pc |-> "done", res |-> res, result |-> "error",
                    message |-> PermissionDenied]
            ELSE [pc |-> "json", res |-> res, result |-> "pending", message |-> ""]]

\* res.json() settles (45-49).
JsonSettles(d) ==
  /\ d \in DOMAIN downloads
  /\ downloads[d].pc = "json"
  /\ downloads' =
       [downloads EXCEPT ![d].pc = "done", ![d].result = "error",
                         ![d].message = CatchThrows(TryThrows(downloads[d].res.body))]

DownloadInit ==
  /\ annotations = <<>>
  /\ StoreIdle
  /\ ExportIdle
  /\ ColorIdle
  /\ PageIdle
  /\ LoadIdle
  /\ AppIdle
  /\ downloads = <<>>

DownloadStep ==
  \/ DownloadCall
  \/ \E d \in 1..MaxDownloads : FetchSettles(d)
  \/ \E d \in 1..MaxDownloads : JsonSettles(d)

DownloadNext ==
  DownloadStep /\ UNCHANGED <<storeVars, exportVars, colorVars, pageVars,
                              loadVars, appVars>>

SpecDownload == DownloadInit /\ [][DownloadNext]_vars

\* C30: the outcomes of downloadDriveFile: an OK response gives the blob; a
\* response that is not OK fails with the permission message when its status
\* is 403, else with the server's message when its body is a JSON error that
\* carries one, and with the generic failure message only when the body
\* cannot be parsed.
C30_DownloadOutcomes ==
  \A d \in DOMAIN downloads :
    downloads[d].pc = "done" =>
      LET res == downloads[d].res
          out == downloads[d]
      IN /\ res.ok => out.result = "blob"
         /\ (~res.ok /\ res.status = 403) =>
              (out.result = "error" /\ out.message = PermissionDenied)
         /\ (~res.ok /\ res.status # 403 /\ res.body.parses
               /\ res.body.message \notin {"undefined", ""}) =>
              (out.result = "error" /\ out.message = res.body.message)
         /\ (~res.ok /\ res.status # 403 /\ res.body.parses) =>
              out.message # DownloadFailure
         /\ (~res.ok /\ res.status # 403 /\ ~res.body.parses) =>
              (out.result = "error" /\ out.message = DownloadFailure)

====
